---- MODULE Spec2Model ----
(***************************************************************************)
(* Model of the deep mock engine of src/src/index.ts: createBaseMock (the  *)
(* call recorder and its behaviour configuration), createMock (the Proxy   *)
(* that materializes child nodes lazily, bounded by MAX_DEPTH) and the     *)
(* await protocol applied by test code to values the engine hands out.     *)
(*                                                                         *)
(* Every node createMock builds is one index of the per-node sequences     *)
(* depth, calls, results, impl, onceQueue and props.  A JavaScript value   *)
(* is a record [t, v]: t is its type tag, v its identity or payload.       *)
(***************************************************************************)
EXTENDS Integers, Sequences, FiniteSets, TLC

VARIABLES
  depth,      \* depth[n]: the depth argument createMock was called with for n
  calls,      \* calls[n]: fn.mock.calls, one argument list per invocation
  results,    \* results[n]: fn.mock.results, records {type, value}
  impl,       \* impl[n]: the closure variable impl of createBaseMock
  onceQueue,  \* onceQueue[n]: the closure variable onceQueue
  props,      \* props[n][k]: own property k of the Proxy target (baseMock)
  observed,   \* observed[n]: what the caller passed and got back since the last clear of n
  ret,        \* outcome of the last operation, as the caller sees it
  aw,         \* the state of the caller's pending await, if any
  frame       \* the invocation of fn whose behaviour is executing, if any

vars == <<depth, calls, results, impl, onceQueue, props, observed, ret, aw, frame>>

----------------------------------------------------------------------------
(* Bounds of the model and constants of the program. *)

MAX_DEPTH == 10

MaxNodes == 3

MaxCalls == 3

MaxQueue == 2

MaxSetup == 1

\* Root depths createMock is started with: the exported function takes depth
\* as its (defaulted) parameter, and every child is createMock(depth + 1).
StartDepths == {0, MAX_DEPTH - 2, MAX_DEPTH}

\* Argument lists passed by callers; two, so that call order is observable.
Args == {"a1", "a2"}

\* The argument list of the call await makes: then(resolve, reject).
ThenArgs == "resolve,reject"

\* Plain values and error objects handed to the configuration sugar.
Vals == {1}

Errs == {1}

----------------------------------------------------------------------------
(* JavaScript values. *)

Undef == [t |-> "undefined", v |-> 0]

Absent == [t |-> "absent", v |-> 0]        \* no own property under a key

Plain(x) == [t |-> "plain", v |-> x]       \* a primitive or plain object

Err(e) == [t |-> "error", v |-> e]         \* the error object e (identity e)

Fulfilled(x) == [t |-> "fulfilled", v |-> x]   \* Promise.resolve(x)

\* The mutant of Rejected: the promise fails with a new error wrapping e.
RejectedWrapped(e) == [t |-> "rejected", v |-> e + 1]

Rejected(e) == [t |-> "rejected", v |-> e]     \* Promise.reject(error e)

ProxyOf(n) == [t |-> "proxy", v |-> n]     \* new Proxy(baseMock, handler) of node n

RawOf(n) == [t |-> "raw", v |-> n]         \* the baseMock function of node n itself

Builtin(k) == [t |-> "builtin", v |-> 0]   \* fn.name, the string every function has

IsNodeValue(x) == x.t \in {"proxy", "raw"}

\* typeof x === 'function'
IsCallable(x) == x.t \in {"proxy", "raw", "function"}

----------------------------------------------------------------------------
(* Property keys. *)

\* Keys that name a member of every function value (fn.name is 'fn').
BuiltinKeys == {"name"}

\* Keys with no meaning to the engine; "then" is the one await reads.
PlainKeys == {"next", "then"}

Keys == PlainKeys \cup BuiltinKeys

NoProps == [k \in Keys |-> Absent]

----------------------------------------------------------------------------
(* Behaviours: the functions stored in impl and onceQueue. *)

NoBehaviour == [b |-> "none", v |-> 0]           \* undefined

Nested(d) == [b |-> "nested", v |-> d]           \* () => createMock(d)

Ret(x) == [b |-> "ret", v |-> x]                 \* () => x

Throw(e) == [b |-> "throw", v |-> e]             \* () => { throw e }

Resolve(x) == [b |-> "resolve", v |-> x]         \* () => Promise.resolve(x)

Reject(e) == [b |-> "reject", v |-> e]           \* () => Promise.reject(e)

\* Functions a test writes itself and passes to mockImplementation(Once).
UserFns == {Throw(e) : e \in Errs}

Nodes == 1..Len(depth)

----------------------------------------------------------------------------
(* createMock(d): undefined past the bound, else a new node and its Proxy. *)

\* The mutant of CreateMockBuilds: the bound is tested one level too late.
CreateMockBuildsLate(d) == ~(d > MAX_DEPTH + 1)

CreateMockBuilds(d) == ~(d > MAX_DEPTH)

CreateMockValue(d) == IF CreateMockBuilds(d) THEN ProxyOf(Len(depth) + 1) ELSE Undef

\* The mutant of DefaultImpl: the nested mock is built at the node's own depth.
DefaultImplSameDepth(d) == Nested(d)

\* The default behaviour createMock gives the node it builds at depth d.
DefaultImpl(d) == Nested(d + 1)

\* A per-node sequence after an operation that built a node (or did not).
Grow(s, init, built) == IF built THEN Append(s, init) ELSE s

\* Running behaviour f: how it completes, with what, and whether it built a
\* node (at depth d).
Run(f) ==
  CASE f.b = "nested"  -> [kind |-> "return", value |-> CreateMockValue(f.v),
                           built |-> CreateMockBuilds(f.v), d |-> f.v]
    [] f.b = "ret"     -> [kind |-> "return", value |-> Plain(f.v), built |-> FALSE, d |-> 0]
    [] f.b = "throw"   -> [kind |-> "throw", value |-> Err(f.v), built |-> FALSE, d |-> 0]
    [] f.b = "resolve" -> [kind |-> "return", value |-> Fulfilled(f.v), built |-> FALSE, d |-> 0]
    [] f.b = "reject"  -> [kind |-> "return", value |-> Rejected(f.v), built |-> FALSE, d |-> 0]
    [] OTHER           -> [kind |-> "return", value |-> Undef, built |-> FALSE, d |-> 0]

----------------------------------------------------------------------------
(* The call recorder fn of createBaseMock. *)

\* The mutant of PushCall: the argument list is put in front of the log.
PushCallFront(log, a) == <<a>> \o log

PushCall(log, a) == Append(log, a)

\* onceQueue.shift(): the removed head (undefined when empty) and the rest.
ShiftHead(q) == IF q = <<>> THEN NoBehaviour ELSE Head(q)

\* The mutant of ShiftRest: the queue gives up its newest entry, not its head.
ShiftRestLast(q) == IF q = <<>> THEN <<>> ELSE SubSeq(q, 1, Len(q) - 1)

ShiftRest(q) == IF q = <<>> THEN <<>> ELSE Tail(q)

\* next ?? impl
ToCall(next, default) == IF next # NoBehaviour THEN next ELSE default

ResultEntry(kind, value) == [type |-> kind, value |-> value]

PushResult(log, kind, value) == Append(log, ResultEntry(kind, value))

\* The mutant of CallOutcome: the error is swallowed, the caller gets undefined.
CallOutcomeSwallowed(out) ==
  IF out.kind = "throw" THEN [kind |-> "return", value |-> Undef]
  ELSE [kind |-> out.kind, value |-> out.value]

\* What the caller gets from fn: the value returned or the error thrown.
CallOutcome(out) == [kind |-> out.kind, value |-> out.value]

\* The test code runs: it is not suspended in an await, and no behaviour is
\* executing.
TestRuns == aw.st = "idle" /\ frame.st = "none"

\* The handles test code calls through: the Proxy of every node, and the
\* value just returned to it when that is a bare baseMock (chaining).
Handles == {ProxyOf(n) : n \in Nodes} \cup (IF ret.value.t = "raw" THEN {ret.value} ELSE {})

Outcome(op, kind, value) == [op |-> op, kind |-> kind, value |-> value]

\* The node-building part of a step, shared by every operation that may call
\* createMock: built says whether a node was built, d its depth.
Build(built, d) ==
  /\ depth' = Grow(depth, d, built)
  /\ impl' = Grow(impl, DefaultImpl(d), built)

\* The behaviour fn runs on its next invocation, and how that run ends.
Chosen(n) == ToCall(ShiftHead(onceQueue[n]), impl[n])

\* One run of fn on node n with argument list a: everything it changes.
CallEffect(n, a) ==
  LET out == Run(Chosen(n))
      got == CallOutcome(out)
  IN /\ Len(calls[n]) < MaxCalls
     /\ Build(out.built, out.d)
     /\ calls' = Grow([calls EXCEPT ![n] = PushCall(@, a)], <<>>, out.built)
     /\ onceQueue' = Grow([onceQueue EXCEPT ![n] = ShiftRest(@)], <<>>, out.built)
     /\ results' = Grow([results EXCEPT ![n] = PushResult(@, out.kind, out.value)],
                        <<>>, out.built)
     /\ props' = Grow(props, NoProps, out.built)
     /\ observed' = Grow([observed EXCEPT ![n] =
                            Append(@, [args |-> a, kind |-> got.kind, value |-> got.value])],
                         <<>>, out.built)

\* What that run hands to its caller.
CallResult(n) == CallOutcome(Run(Chosen(n)))

Invoke(h, a) ==
  /\ TestRuns
  /\ CallEffect(h.v, a)
  /\ ret' = Outcome("call", CallResult(h.v).kind, CallResult(h.v).value)
  /\ UNCHANGED <<aw, frame>>

----------------------------------------------------------------------------
(* The behaviour configuration protocol. *)

\* What every configuration method of a createMock node returns.
ConfigReturn(n) == RawOf(n)

Configure(h, newImpl, newQueue) ==
  LET n == h.v
  IN /\ TestRuns
     /\ impl' = [impl EXCEPT ![n] = newImpl]
     /\ onceQueue' = [onceQueue EXCEPT ![n] = newQueue]
     /\ ret' = Outcome("config", "return", ConfigReturn(n))
     /\ UNCHANGED <<depth, calls, results, props, observed, aw, frame>>

\* The mutant of SetDefault: a default that was configured before is kept.
SetDefaultIfUnset(h, f) ==
  Configure(h, IF impl[h.v] = DefaultImpl(depth[h.v]) THEN f ELSE impl[h.v], onceQueue[h.v])

SetDefault(h, f) == Configure(h, f, onceQueue[h.v])

QueueOnce(h, f) ==
  /\ Len(onceQueue[h.v]) < MaxQueue
  /\ Configure(h, impl[h.v], Append(onceQueue[h.v], f))

MockImplementation(h, f) == SetDefault(h, f)

MockImplementationOnce(h, f) == QueueOnce(h, f)

MockReturnValue(h, x) == SetDefault(h, Ret(x))

MockReturnValueOnce(h, x) == QueueOnce(h, Ret(x))

MockResolvedValue(h, x) == SetDefault(h, Resolve(x))

MockResolvedValueOnce(h, x) == QueueOnce(h, Resolve(x))

MockRejectedValue(h, e) == SetDefault(h, Reject(e))

MockRejectedValueOnce(h, e) == QueueOnce(h, Reject(e))

\* The mutant of ClearedLog: the newest entry survives the clear.
ClearedLogKeepsLast(log) == IF log = <<>> THEN <<>> ELSE <<log[Len(log)]>>

\* mock.calls = [] and mock.results = []: a log after the clear.
ClearedLog(log) == <<>>

\* The mutant of MockClear: the logs live in one registry shared by every
\* node, and a clear empties all of them.
MockClearAll(h) ==
  /\ aw.st = "idle" /\ frame.st = "none"
  /\ calls' = [m \in DOMAIN calls |-> <<>>]
  /\ results' = [m \in DOMAIN results |-> <<>>]
  /\ observed' = [m \in DOMAIN observed |-> <<>>]
  /\ ret' = [op |-> "mockClear", kind |-> "return", value |-> RawOf(h.v)]
  /\ UNCHANGED <<depth, impl, onceQueue, props, aw, frame>>

\* createMock's mockClear: both logs become new empty arrays.
MockClear(h) ==
  LET n == h.v
  IN /\ TestRuns
     /\ calls' = [calls EXCEPT ![n] = ClearedLog(@)]
     /\ results' = [results EXCEPT ![n] = ClearedLog(@)]
     /\ observed' = [observed EXCEPT ![n] = <<>>]
     /\ ret' = Outcome("mockClear", "return", ConfigReturn(n))
     /\ UNCHANGED <<depth, impl, onceQueue, props, aw, frame>>

\* The one-shot queue createMock's mockReset leaves behind.
ResetQueue(q) == q

\* createMock's mockReset: mockClear(), then mockImplementation(() =>
\* createMock(depth + 1)).
MockReset(h) ==
  LET n == h.v
  IN /\ TestRuns
     /\ calls' = [calls EXCEPT ![n] = ClearedLog(@)]
     /\ results' = [results EXCEPT ![n] = ClearedLog(@)]
     /\ observed' = [observed EXCEPT ![n] = <<>>]
     /\ impl' = [impl EXCEPT ![n] = Nested(depth[n] + 1)]
     /\ onceQueue' = [onceQueue EXCEPT ![n] = ResetQueue(@)]
     /\ ret' = Outcome("mockReset", "return", ConfigReturn(n))
     /\ UNCHANGED <<depth, props, aw, frame>>

----------------------------------------------------------------------------
(* The Proxy handler of createMock. *)

\* target[k]: an own property, else what the function value inherits.
TargetGet(n, k) ==
  IF props[n][k] # Absent THEN props[n][k]
  ELSE IF k \in BuiltinKeys THEN Builtin(k) ELSE Undef

\* The mutant of Misses: the cache is never consulted.
MissesAlways(n, k) == TRUE

\* handler.get found nothing cached under the key.
Misses(n, k) == TargetGet(n, k) = Undef

\* handler.get reaches createMock(depth + 1): the receiver is the Proxy and
\* nothing is cached under the key.
GetMisses(h, k) == h.t = "proxy" /\ Misses(h.v, k)

\* What a read of key k through handle h returns: the cached value, or the
\* nested mock createMock(depth + 1) just stored under the key.
GetValue(h, k) ==
  IF GetMisses(h, k) THEN CreateMockValue(depth[h.v] + 1) ELSE TargetGet(h.v, k)

\* What a read stores: the nested mock under the key, and the logs, queue and
\* properties of the node createMock built for it.
GetStores(h, k) ==
  LET n == h.v
      miss == GetMisses(h, k)
      built == miss /\ CreateMockBuilds(depth[n] + 1)
  IN /\ props' = Grow(IF miss THEN [props EXCEPT ![n][k] = GetValue(h, k)] ELSE props,
                      NoProps, built)
     /\ calls' = Grow(calls, <<>>, built)
     /\ results' = Grow(results, <<>>, built)
     /\ onceQueue' = Grow(onceQueue, <<>>, built)
     /\ observed' = Grow(observed, <<>>, built)

\* Everything a read changes.
GetEffect(h, k) ==
  /\ Build(GetMisses(h, k) /\ CreateMockBuilds(depth[h.v] + 1), depth[h.v] + 1)
  /\ GetStores(h, k)

\* handler.get for a key that is not a reserved member.
Get(h, k) ==
  /\ TestRuns
  /\ GetEffect(h, k)
  /\ ret' = Outcome("get", "return", GetValue(h, k))
  /\ UNCHANGED <<aw, frame>>

\* The TypeError of an assignment to a read-only property (fn.name).
TypeErr == Err(0)

\* handler.set: target[k] = value.
Set(h, k, x) ==
  LET n == h.v
  IN /\ TestRuns
     /\ IF k \in BuiltinKeys
        THEN /\ ret' = Outcome("set", "throw", TypeErr)
             /\ UNCHANGED props
        ELSE /\ ret' = Outcome("set", "return", x)
             /\ props' = [props EXCEPT ![n][k] = x]
     /\ UNCHANGED <<depth, calls, results, impl, onceQueue, observed, aw, frame>>

\* Values test code writes into a mocked structure.
SetVals == {Plain(x) : x \in Vals} \cup {Undef}

\* The members createBaseMock assigns to fn: own enumerable properties of the
\* Proxy target.
RecorderMembers ==
  {"mock", "mockImplementation", "mockImplementationOnce", "mockReturnValue",
   "mockReturnValueOnce", "mockResolvedValue", "mockResolvedValueOnce",
   "mockRejectedValue", "mockRejectedValueOnce", "mockClear", "mockReset"}

\* handler.ownKeys: Object.keys(target), the target's own enumerable string
\* keys (fn.name is own but not enumerable, and cannot be assigned).
OwnKeys(n) == RecorderMembers \cup {k \in Keys : props[n][k] # Absent}

\* handler.getOwnPropertyDescriptor: an enumerable descriptor iff prop in target.
HasDescriptor(n, k) == k \in OwnKeys(n) \/ k \in BuiltinKeys

\* Object.keys(proxy): the keys of ownKeys whose descriptor is enumerable.
Enumerate(n) == {k \in OwnKeys(n) : HasDescriptor(n, k)}

----------------------------------------------------------------------------

NotAwaiting == [st |-> "idle", x |-> Undef, then |-> Undef]

\* No invocation is in progress.
NoFrame ==
  [st |-> "none", n |-> 0, args |-> "", toCall |-> NoBehaviour,
   out |-> [kind |-> "return", value |-> Undef]]

\* The state after createMock(d0) returned the root.
Init ==
  \E d0 \in StartDepths :
    /\ depth = <<d0>>
    /\ calls = << <<>> >>
    /\ results = << <<>> >>
    /\ impl = <<DefaultImpl(d0)>>
    /\ onceQueue = << <<>> >>
    /\ props = <<NoProps>>
    /\ observed = << <<>> >>
    /\ ret = Outcome("createMock", "return", ProxyOf(1))
    /\ aw = NotAwaiting
    /\ frame = NoFrame

\* The model holds at most MaxNodes nodes: an operation that would build one
\* more is not taken.
CanAlloc == Len(depth) < MaxNodes

InvokeFits(h) == Run(Chosen(h.v)).built => CanAlloc

GetFits(h, k) == (GetMisses(h, k) /\ CreateMockBuilds(depth[h.v] + 1)) => CanAlloc

\* The recorder operations of nodes H, every configuration method included.
RecorderNext(H) ==
  \/ \E h \in H, a \in Args : InvokeFits(h) /\ Invoke(h, a)
  \/ \E h \in H, f \in UserFns : MockImplementation(h, f)
  \/ \E h \in H, f \in UserFns : MockImplementationOnce(h, f)
  \/ \E h \in H, x \in Vals : MockReturnValue(h, x)
  \/ \E h \in H, x \in Vals : MockReturnValueOnce(h, x)
  \/ \E h \in H, x \in Vals : MockResolvedValue(h, x)
  \/ \E h \in H, x \in Vals : MockResolvedValueOnce(h, x)
  \/ \E h \in H, e \in Errs : MockRejectedValue(h, e)
  \/ \E h \in H, e \in Errs : MockRejectedValueOnce(h, e)
  \/ \E h \in H : MockClear(h)
  \/ \E h \in H : MockReset(h)

\* A test of one recorder: every operation is made on the root.
RootHandles == {ProxyOf(1)}

UnitNext == RecorderNext(RootHandles)

UnitSpec == Init /\ [][UnitNext]_vars

----------------------------------------------------------------------------
(* A test that walks the tree: reads and writes on every node, and recorder *)
(* operations on every node while few recorder entries exist in the tree.   *)

RECURSIVE SumLen(_, _)
SumLen(s, i) == IF i = 0 THEN 0 ELSE Len(s[i]) + SumLen(s, i - 1)

\* Recorder entries in the tree: logged calls, queued one-shot behaviours and
\* replaced defaults.
Setup ==
  SumLen(calls, Len(calls)) + SumLen(onceQueue, Len(onceQueue))
    + Cardinality({n \in Nodes : impl[n] # DefaultImpl(depth[n])})

\* Keys test code writes: an ordinary one and a built-in one.
WriteKeys == {"next", "name"}

Next ==
  \/ \E h \in Handles, k \in Keys : GetFits(h, k) /\ Get(h, k)
  \/ \E h \in Handles, k \in WriteKeys, x \in SetVals : Set(h, k, x)
  \/ \E h \in Handles, a \in Args : Setup < MaxSetup /\ InvokeFits(h) /\ Invoke(h, a)
  \/ \E h \in Handles, x \in Vals : Setup < MaxSetup /\ MockReturnValue(h, x)
  \/ \E h \in Handles, x \in Vals : Setup < MaxSetup /\ MockReturnValueOnce(h, x)
  \/ \E h \in Handles : MockClear(h)
  \/ \E h \in Handles : MockReset(h)

Spec == Init /\ [][Next]_vars

----------------------------------------------------------------------------
(* A test that awaits what a mock returned.  `await x` reads x.then; when   *)
(* that is callable a job calls x.then(resolve, reject) and the test stays  *)
(* suspended until one of the two callbacks is called.                      *)

\* The value x.then evaluates to.
ThenOf(x) == IF IsNodeValue(x) THEN GetValue(x, "then") ELSE Undef

\* The job that calls then has room to run within the bounds.
AwaitRoom(x) ==
  LET t == ThenOf(x)
      isNew == GetMisses(x, "then")
      f == IF isNew THEN DefaultImpl(depth[x.v] + 1) ELSE Chosen(t.v)
      logged == IF isNew THEN 0 ELSE Len(calls[t.v])
      builds == (IF isNew THEN 1 ELSE 0) + (IF Run(f).built THEN 1 ELSE 0)
  IN IsNodeValue(t) => logged < MaxCalls /\ Len(depth) + builds <= MaxNodes

\* await x, x the value the last call returned.
AwaitStart ==
  LET x == ret.value
      t == ThenOf(x)
  IN /\ TestRuns
     /\ ret.op = "call" /\ ret.kind = "return"
     /\ IF IsNodeValue(x)
        THEN /\ AwaitRoom(x)
             /\ GetEffect(x, "then")
             /\ IF IsCallable(t)
                THEN /\ aw' = [st |-> "job", x |-> x, then |-> t]
                     /\ UNCHANGED frame
                     /\ UNCHANGED ret
                ELSE /\ ret' = Outcome("await", "return", x)
                     /\ UNCHANGED <<aw, frame>>
        ELSE /\ ret' = CASE x.t = "fulfilled" -> Outcome("await", "return", Plain(x.v))
                         [] x.t = "rejected" -> Outcome("await", "throw", Err(x.v))
                         [] OTHER -> Outcome("await", "return", x)
             /\ UNCHANGED <<depth, calls, results, impl, onceQueue, props, observed, aw, frame>>

\* The job: then.call(x, resolve, reject).  A throw rejects the awaited
\* promise; a normal return leaves it to then to call a callback, which no
\* behaviour of a mock does.
AwaitJob ==
  /\ aw.st = "job"
  /\ CallEffect(aw.then.v, ThenArgs)
  /\ IF CallResult(aw.then.v).kind = "throw"
     THEN /\ aw' = NotAwaiting
          /\ ret' = Outcome("await", "throw", CallResult(aw.then.v).value)
     ELSE /\ aw' = [aw EXCEPT !.st = "pending"]
          /\ UNCHANGED ret
  /\ UNCHANGED frame

AwaitNext ==
  \/ \E h \in Handles, k \in PlainKeys : GetFits(h, k) /\ Get(h, k)
  \/ \E h \in Handles, a \in Args : Setup <= MaxSetup /\ InvokeFits(h) /\ Invoke(h, a)
  \/ \E h \in Handles, x \in Vals : Setup < MaxSetup /\ MockResolvedValue(h, x)
  \/ \E h \in Handles, e \in Errs : Setup < MaxSetup /\ MockRejectedValue(h, e)
  \/ \E h \in Handles, f \in UserFns : Setup < MaxSetup /\ MockImplementation(h, f)
  \/ AwaitStart
  \/ AwaitJob

\* The host runs every queued job: the call of then is never postponed forever.
AwaitSpec == Init /\ [][AwaitNext]_vars /\ WF_vars(AwaitJob)

----------------------------------------------------------------------------
(* A test that walks down from the root, m.k1.k2.k3 ...: every read is made *)
(* on the value the read before it returned.  Nothing bounds this walk but  *)
(* the engine's own depth bound.                                            *)

Cursor == IF ret.op \in {"createMock", "get"} /\ ret.value.t = "proxy" THEN {ret.value} ELSE {}

WalkNext == \E h \in Cursor, k \in Keys : Get(h, k)

WalkSpec == Init /\ [][WalkNext]_vars

----------------------------------------------------------------------------
(* Claims.  The caller's side of a step: node n was invoked in it. *)

Invoked(n) == ret'.op = "call" /\ Len(observed'[n]) = Len(observed[n]) + 1

\* The behaviour an invocation of n has to run: the oldest queued one-shot
\* behaviour, else the default.
Due(n) == IF onceQueue[n] # <<>> THEN onceQueue[n][1] ELSE impl[n]

\* C1: after N invocations of a node since its last clear, mock.calls holds
\* the N argument lists in call order and mock.results holds, at the same
\* index, the outcome the caller got from that call.
C1_CallOrder ==
  \A n \in Nodes :
    /\ Len(calls[n]) = Len(observed[n])
    /\ Len(results[n]) = Len(observed[n])
    /\ \A i \in 1..Len(observed[n]) :
         /\ calls[n][i] = observed[n][i].args
         /\ results[n][i] = [type |-> observed[n][i].kind, value |-> observed[n][i].value]

\* Three invocations with different arguments and different outcomes.
C1_Witness ==
  /\ Len(observed[1]) = 3
  /\ calls[1] = <<"a2", "a1", "a2">>
  /\ results[1][1].type = "throw"
  /\ results[1][2] = [type |-> "return", value |-> Plain(1)]
  /\ results[1][3].value.t = "rejected"

\* C2: every invocation consumes exactly the head of the one-shot queue and
\* runs it (also when it throws), the rest of the queue keeping its order;
\* with an empty queue it runs the current default; configuring only ever
\* adds at the tail, and clearing leaves the queue alone.
C2_Fifo ==
  [][\A n \in Nodes :
       /\ Invoked(n) =>
            /\ ret'.kind = Run(Due(n)).kind
            /\ ret'.value = Run(Due(n)).value
            /\ onceQueue'[n] = IF onceQueue[n] = <<>> THEN <<>> ELSE Tail(onceQueue[n])
       /\ ret'.op \in {"config", "mockClear"} =>
            \/ onceQueue'[n] = onceQueue[n]
            \/ /\ Len(onceQueue'[n]) = Len(onceQueue[n]) + 1
               /\ SubSeq(onceQueue'[n], 1, Len(onceQueue[n])) = onceQueue[n]]_vars

\* B1 (throwing) and B2 were queued and consumed in that order; the third
\* invocation fell back to the default, which built a nested mock.
C2_Witness ==
  /\ onceQueue[1] = <<>>
  /\ impl[1] = DefaultImpl(depth[1])
  /\ results[1] = << [type |-> "throw", value |-> Err(1)],
                     [type |-> "return", value |-> Fulfilled(1)],
                     [type |-> "return", value |-> ProxyOf(2)] >>

\* C3 (as claimed): right after mockReset the node has empty logs, an empty
\* one-shot queue and its construction-time default, so that its next
\* invocation returns a nested mock.
C3_ResetRestoresAll ==
  ret.op = "mockReset" =>
    /\ calls[1] = <<>>
    /\ results[1] = <<>>
    /\ onceQueue[1] = <<>>
    /\ impl[1] = DefaultImpl(depth[1])

\* C4: mockClear empties both logs of the node and changes neither the
\* default nor the queue of any node, so what the next invocation yields is
\* what it would have yielded without the clear; that invocation leaves both
\* logs with one entry.
C4_ClearKeepsBehaviour ==
  [][/\ ret'.op = "mockClear" =>
          /\ \E n \in Nodes : calls'[n] = <<>> /\ results'[n] = <<>>
          /\ impl' = impl
          /\ onceQueue' = onceQueue
          /\ \A n \in Nodes : Run(Due(n))' = Run(Due(n))
     /\ \A n \in Nodes :
          ret.op = "mockClear" /\ calls[n] = <<>> /\ Invoked(n) =>
            /\ Len(calls'[n]) = 1
            /\ Len(results'[n]) = 1
            /\ ret'.kind = Run(Due(n)).kind
            /\ ret'.value = Run(Due(n)).value]_vars

\* A clear that emptied the logs of a node with a default and a queued
\* behaviour configured.
C4_Witness ==
  /\ ret.op = "mockClear"
  /\ calls[1] = <<>> /\ results[1] = <<>>
  /\ impl[1] = Ret(1)
  /\ onceQueue[1] = <<Reject(1), Throw(1)>>

\* C5: an invocation runs the head of the one-shot queue, else the default;
\* a normal completion with v appends {return, v} and returns v, an error e
\* appends {throw, e} and the same e reaches the caller; either way each log
\* grows by exactly one entry.
C5_InvokeOutcome ==
  [][\A n \in Nodes :
       Invoked(n) =>
         LET out == Run(Due(n))
         IN /\ results'[n] = Append(results[n], [type |-> out.kind, value |-> out.value])
            /\ Len(calls'[n]) = Len(calls[n]) + 1
            /\ ret' = [op |-> "call", kind |-> out.kind, value |-> out.value]
            /\ out.kind = "throw" => ret'.kind = "throw" /\ ret'.value = Err(Due(n).v)
            /\ out.kind = "return" => ret'.kind = "return"]_vars

\* The caller got the configured error thrown at it, and the log shows it.
C5_Witness ==
  /\ ret = [op |-> "call", kind |-> "throw", value |-> Err(1)]
  /\ Len(results[1]) = 2
  /\ results[1][2] = [type |-> "throw", value |-> Err(1)]
  /\ results[1][1].type = "return"

\* C6: once a key of a node holds a child, every step that is not a write
\* keeps that very child under the key, and every read of the key, through
\* whatever handle, returns it.
C6_ReferentialStability ==
  [][/\ ret'.op # "set" =>
          \A n \in Nodes, k \in Keys : props[n][k].t = "proxy" => props'[n][k] = props[n][k]
     /\ ret'.op = "get" =>
          \A h \in Handles, k \in Keys :
            props[h.v][k].t = "proxy" /\ Get(h, k) =>
              /\ ret'.value = props[h.v][k]
              /\ Len(depth') = Len(depth)]_vars

\* A read returned the child that an earlier read built: the child has been
\* configured since, and another key of the parent was read as well.
C6_Witness ==
  /\ ret = [op |-> "get", kind |-> "return", value |-> ProxyOf(2)]
  /\ props[1]["next"] = ProxyOf(2)
  /\ impl[2] = Ret(1)
  /\ props[1]["then"] = ProxyOf(3)

\* C7: no node is deeper than MAX_DEPTH and a child is one level below its
\* parent; the first read of a key builds a node one level down as long as
\* the parent is above the bound, and on a node at the bound it returns
\* undefined, building nothing and raising nothing.
C7_DepthBound ==
  /\ [](\A n \in Nodes :
          /\ depth[n] <= MAX_DEPTH
          /\ \A k \in Keys : props[n][k].t = "proxy" => depth[props[n][k].v] = depth[n] + 1)
  /\ [][\A n \in Nodes, k \in PlainKeys :
          Get(ProxyOf(n), k) /\ props[n][k] = Absent =>
            /\ ret'.kind = "return"
            /\ IF depth[n] < MAX_DEPTH
               THEN ret'.value = ProxyOf(Len(depth) + 1) /\ depth' = Append(depth, depth[n] + 1)
               ELSE ret'.value = Undef /\ depth' = depth]_vars

\* Ten reads from the root at depth 0 built ten nodes, the last at depth 10;
\* the eleventh read returned undefined.
C7_Witness ==
  /\ depth = <<0, 1, 2, 3, 4, 5, 6, 7, 8, 9, 10>>
  /\ \A n \in 1..10 : props[n]["next"] = ProxyOf(n + 1)
  /\ props[11]["next"] = Undef
  /\ ret = [op |-> "get", kind |-> "return", value |-> Undef]

\* C8 (as claimed): the first read of any key that was never written, on a
\* node above the depth bound, builds a mock node one level down, caches it
\* under the key and returns it.
C8_EveryKeyMaterializes ==
  [][\A n \in Nodes, k \in Keys :
       Get(ProxyOf(n), k) /\ props[n][k] = Absent /\ depth[n] < MAX_DEPTH =>
         /\ ret'.value = ProxyOf(Len(depth) + 1)
         /\ depth' = Append(depth, depth[n] + 1)
         /\ props'[n][k] = ret'.value]_vars

\* C9 (as claimed): an await that was suspended on a mock node is resumed.
C9_AwaitCompletes == (aw.st # "idle") ~> (aw.st = "idle")

\* C10 (as claimed): a configuration method returns the node it was called
\* on, here the root's Proxy.
C10_ReturnsReceiver ==
  ret.op \in {"config", "mockClear", "mockReset"} => ret.value = ProxyOf(1)

\* Every function a configuration method can install as the default.
Defaults ==
  UserFns \cup {Ret(x) : x \in Vals} \cup {Resolve(x) : x \in Vals} \cup {Reject(e) : e \in Errs}

\* C11: mockImplementation(f) and its sugar make f the default whatever the
\* default was, and change neither the one-shot queue nor the logs; the
\* invocation that follows runs f when the queue is empty and the head of
\* the queue otherwise.
C11_SetDefaultReplaces ==
  [][/\ ret'.op = "config" =>
          \A f \in Defaults :
            SetDefault(ProxyOf(1), f) =>
              /\ impl'[1] = f
              /\ onceQueue' = onceQueue
              /\ calls' = calls
              /\ results' = results
     /\ ret.op = "config" /\ Invoked(1) =>
          /\ onceQueue[1] = <<>> => ret'.value = Run(impl[1]).value
          /\ onceQueue[1] # <<>> => ret'.value = Run(onceQueue[1][1]).value
                                    /\ impl' = impl]_vars

\* A default that had been configured and used was replaced, with a one-shot
\* behaviour waiting in the queue and two calls in the logs.
C11_Witness ==
  /\ ret.op = "config"
  /\ impl[1] = Throw(1)
  /\ onceQueue[1] = <<Ret(1)>>
  /\ Len(calls[1]) = 2
  /\ results[1][1].value = Fulfilled(1)
  /\ results[1][2].value = Rejected(1)

\* C12: invoking a node above the depth bound on which nothing was
\* configured returns, as a 'return' result, a node built by that very
\* invocation, one level down and with empty logs; it does not raise.
C12_UnconfiguredReturnsFresh ==
  [][\A n \in Nodes :
       /\ Invoked(n)
       /\ impl[n] = DefaultImpl(depth[n]) /\ onceQueue[n] = <<>> /\ depth[n] < MAX_DEPTH
       => /\ ret'.kind = "return"
          /\ ret'.value = ProxyOf(Len(depth) + 1)
          /\ Len(depth') = Len(depth) + 1
          /\ depth'[Len(depth')] = depth[n] + 1
          /\ calls'[Len(depth')] = <<>> /\ results'[Len(depth')] = <<>>
          /\ results'[n][Len(results'[n])] = [type |-> "return", value |-> ret'.value]]_vars

\* Two invocations of the unconfigured root returned two different nodes.
C12_Witness ==
  /\ depth = <<0, 1, 1>>
  /\ results[1] = << [type |-> "return", value |-> ProxyOf(2)],
                     [type |-> "return", value |-> ProxyOf(3)] >>
  /\ ret = [op |-> "call", kind |-> "return", value |-> ProxyOf(3)]

\* C18: mockRejectedValue(E) and mockRejectedValueOnce(E) return without
\* raising, and the invocation that runs the behaviour they installed
\* returns, without raising, a promise rejected with E itself.
C18_RejectsWithE ==
  [][/\ ret'.op = "config" => ret'.kind = "return"
     /\ \A n \in Nodes :
          Invoked(n) /\ Due(n).b = "reject" =>
            /\ ret'.kind = "return"
            /\ ret'.value.t = "rejected"
            /\ ret'.value.v = Due(n).v
            /\ results'[n][Len(results'[n])] = [type |-> "return", value |-> ret'.value]]_vars

\* Two invocations in a row returned a promise rejected with the configured
\* error, the default being the rejection.
C18_Witness ==
  /\ impl[1] = Reject(1)
  /\ Len(results[1]) = 2
  /\ results[1][1].value = Rejected(1)
  /\ results[1][2].value = Rejected(1)
  /\ onceQueue[1] = <<>>
  /\ ret = [op |-> "call", kind |-> "return", value |-> Rejected(1)]

\* C13 (as claimed): a write of x to key k that returned leaves the node in
\* a state where a read of k returns x and builds nothing.
C13_WriteThenRead ==
  [][ret'.op = "set" /\ ret'.kind = "return" =>
       \A h \in Handles, k \in WriteKeys, x \in SetVals :
         Set(h, k, x) =>
           /\ ~GetMisses(ProxyOf(h.v), k)'
           /\ GetValue(ProxyOf(h.v), k)' = x]_vars

\* C14 (as claimed): in a tree that was only read, a node enumerates exactly
\* the keys under which it holds a child; a fresh node enumerates nothing and
\* a key read at the depth bound is not exposed.
C14_EnumeratesChildren ==
  \A n \in Nodes : Enumerate(n) = {k \in Keys : props[n][k].t = "proxy"}

----------------------------------------------------------------------------
(* The helpers isMock and getCallInfo, and the values test code may pass to *)
(* them besides the nodes of a mock tree.                                   *)

Null == [t |-> "null", v |-> 0]

True == [t |-> "true", v |-> 0]

False == [t |-> "false", v |-> 0]

\* What the property mock of a value that is no node may hold.
NoMock == 0          \* no such property: value.mock is undefined

NullMock == 1        \* null

NumberMock == 2      \* a number

EmptyMock == 3       \* {}

CallsOnlyMock == 4   \* {calls: []}

FullMock == 5        \* {calls: [], results: []}

MockShapes == {NoMock, NullMock, NumberMock, EmptyMock, CallsOnlyMock, FullMock}

\* A function, and a plain object, whose property mock has shape m.
Fn(m) == [t |-> "function", v |-> m]

Obj(m) == [t |-> "object", v |-> m]

\* Values that no createMock call produced.
Foreign ==
  {Null, Undef} \cup {Plain(x) : x \in Vals}
    \cup {Fn(m) : m \in MockShapes} \cup {Obj(m) : m \in MockShapes}

\* typeof value === 'function'
TypeofFunction(x) == IsCallable(x)

\* typeof value.mock === 'object' (typeof null is 'object' as well)
TypeofMockObject(x) ==
  IsNodeValue(x) \/ x.v \in {NullMock, EmptyMock, CallsOnlyMock, FullMock}

\* Reading a property of value.mock throws when value.mock is null.
MockReadThrows(x) == ~IsNodeValue(x) /\ x.v = NullMock

\* Array.isArray(value.mock.calls) and Array.isArray(value.mock.results)
CallsIsArray(x) == IsNodeValue(x) \/ x.v \in {CallsOnlyMock, FullMock}

ResultsIsArray(x) == IsNodeValue(x) \/ x.v = FullMock

\* isMock(value): the conjunction is evaluated left to right and stops at
\* the first false operand.
IsMock(x) ==
  IF ~TypeofFunction(x) THEN [kind |-> "return", value |-> False]
  ELSE IF ~TypeofMockObject(x) THEN [kind |-> "return", value |-> False]
  ELSE IF MockReadThrows(x) THEN [kind |-> "throw", value |-> TypeErr]
  ELSE IF ~CallsIsArray(x) THEN [kind |-> "return", value |-> False]
  ELSE IF ~ResultsIsArray(x) THEN [kind |-> "return", value |-> False]
  ELSE [kind |-> "return", value |-> True]

IsMockCall(x) ==
  /\ TestRuns
  /\ ret' = Outcome("isMock", IsMock(x).kind, IsMock(x).value)
  /\ UNCHANGED <<depth, calls, results, impl, onceQueue, props, observed, aw, frame>>

\* mockFn.mock.calls and mockFn.mock.results as getCallInfo reads them.
CallsOf(x) == IF IsNodeValue(x) THEN calls[x.v] ELSE <<>>

ResultsOf(x) == IF IsNodeValue(x) THEN results[x.v] ELSE <<>>

\* The empty argument list [].
NoArgs == "[]"

\* The mutant of LastEntry: the oldest entry is taken for the newest.
LastEntryOldest(log, none) == IF log = <<>> THEN none ELSE log[1]

\* log[log.length - 1] || none
LastEntry(log, none) == IF log = <<>> THEN none ELSE log[Len(log)]

\* The record getCallInfo returns.
CallInfo(x) ==
  [t |-> "info", v |-> 0,
   callCount |-> Len(CallsOf(x)),
   calls |-> CallsOf(x),
   results |-> ResultsOf(x),
   lastCall |-> LastEntry(CallsOf(x), NoArgs),
   lastResult |-> LastEntry(ResultsOf(x), ResultEntry("return", Undef))]

\* getCallInfo(mockFn): an error thrown by isMock propagates.
GetCallInfo(x) ==
  /\ TestRuns
  /\ ret' = IF IsMock(x).kind = "throw" THEN Outcome("getCallInfo", "throw", IsMock(x).value)
            ELSE IF IsMock(x).value # True THEN Outcome("getCallInfo", "throw", TypeErr)
            ELSE Outcome("getCallInfo", "return", CallInfo(x))
  /\ UNCHANGED <<depth, calls, results, impl, onceQueue, props, observed, aw, frame>>

\* A test of the helpers: it uses a recorder and passes nodes and other
\* values to isMock and getCallInfo.
HelperInputs == Handles \cup Foreign

HelperNext ==
  \/ \E h \in RootHandles, a \in Args : InvokeFits(h) /\ Invoke(h, a)
  \/ \E h \in RootHandles, f \in UserFns : MockImplementationOnce(h, f)
  \/ \E h \in RootHandles : MockClear(h)
  \/ \E h \in RootHandles : MockReset(h)
  \/ \E x \in HelperInputs : IsMockCall(x)
  \/ \E x \in HelperInputs : GetCallInfo(x)

HelperSpec == Init /\ [][HelperNext]_vars

\* C15 (as claimed): isMock returns for every input, true for a function
\* whose mock holds two arrays and false for everything else.
C15_IsMockTotal ==
  [][ret'.op = "isMock" =>
       \A x \in HelperInputs :
         IsMockCall(x) =>
           /\ ret'.kind = "return"
           /\ ret'.value = IF TypeofFunction(x) /\ CallsIsArray(x) /\ ResultsIsArray(x)
                           THEN True ELSE False]_vars

\* C16: getCallInfo changes nothing; on a value isMock finds false it throws
\* TypeError; on a node it returns the length of mock.calls, the newest
\* argument list (NoArgs when mock.calls is empty) and the newest result
\* entry (a 'return' of undefined when mock.results is empty).
C16_CallInfo ==
  [][ret'.op = "getCallInfo" =>
       /\ UNCHANGED <<depth, calls, results, impl, onceQueue, props>>
       /\ \A x \in HelperInputs :
            GetCallInfo(x) =>
              /\ IsMock(x) = [kind |-> "return", value |-> False] =>
                   ret'.kind = "throw" /\ ret'.value = TypeErr
              /\ IsMock(x) = [kind |-> "return", value |-> True] =>
                   /\ ret'.kind = "return"
                   /\ ret'.value.callCount = Len(CallsOf(x))
                   /\ ret'.value.lastCall =
                        IF CallsOf(x) = <<>> THEN NoArgs ELSE CallsOf(x)[Len(CallsOf(x))]
                   /\ ret'.value.lastResult =
                        IF ResultsOf(x) = <<>> THEN [type |-> "return", value |-> Undef]
                        ELSE ResultsOf(x)[Len(ResultsOf(x))]]_vars

\* getCallInfo on the root after three calls with different outcomes, the
\* last one a throw.
C16_Witness ==
  /\ ret.op = "getCallInfo" /\ ret.kind = "return"
  /\ Len(calls[1]) = 3 /\ calls[1][1] # calls[1][3]
  /\ ret.value.callCount = 3
  /\ ret.value.lastCall = calls[1][3]
  /\ ret.value.lastResult = [type |-> "throw", value |-> Err(1)]
  /\ results[1][1].type = "return"

----------------------------------------------------------------------------
(* createMockWithDefaults(defaults): createMock(), then one pass over the   *)
(* entries of defaults.                                                     *)

\* An entry of defaults: key k with a function f, or with the plain value x.
FnEntry(k, f) == [k |-> k, isFn |-> TRUE, f |-> f, x |-> 0]

ValEntry(k, x) == [k |-> k, isFn |-> FALSE, f |-> NoBehaviour, x |-> x]

\* Functions test code passes as defaults: async () => value among them.
DefaultFns == UserFns \cup {Resolve(x) : x \in Vals}

DefaultEntries ==
  {FnEntry(k, f) : k \in Keys, f \in DefaultFns} \cup {ValEntry(k, x) : k \in Keys, x \in Vals}

\* The behaviour the pass installs on a callable mockProp: the function
\* itself through mockImplementation, or () => value through mockReturnValue.
EntryImpl(e) == IF e.isFn THEN e.f ELSE Ret(e.x)

\* createMock() has just returned the root the pass works on.
FreshRoot == ret.op = "createMock" /\ depth = <<0>>

\* createMockWithDefaults({}) and createMockWithDefaults(): no entry.
CreateMockWithNoDefaults ==
  /\ TestRuns /\ FreshRoot
  /\ ret' = Outcome("createMockWithDefaults", "return", ProxyOf(1))
  /\ UNCHANGED <<depth, calls, results, impl, onceQueue, props, observed, aw, frame>>

\* createMockWithDefaults({[e.k]: ...}): mockProp = mockObj[key], then the
\* branch its type and the type of the default select.
CreateMockWithDefaults(e) ==
  LET root == ProxyOf(1)
      mockProp == GetValue(root, e.k)
      d == depth[1] + 1
      built == GetMisses(root, e.k) /\ CreateMockBuilds(d)
  IN /\ TestRuns /\ FreshRoot
     /\ IF IsCallable(mockProp)
        THEN /\ depth' = Grow(depth, d, built)
             /\ impl' = [Grow(impl, DefaultImpl(d), built) EXCEPT ![mockProp.v] = EntryImpl(e)]
             /\ GetStores(root, e.k)
             /\ ret' = Outcome("createMockWithDefaults", "return", root)
        ELSE /\ IF e.k \in BuiltinKeys
                THEN /\ ret' = Outcome("createMockWithDefaults", "throw", TypeErr)
                     /\ UNCHANGED props
                ELSE /\ ret' = Outcome("createMockWithDefaults", "return", root)
                     /\ props' = [props EXCEPT ![1][e.k] = IF e.isFn THEN Fn(NoMock) ELSE Plain(e.x)]
             /\ UNCHANGED <<depth, calls, results, impl, onceQueue, observed>>
     /\ UNCHANGED <<aw, frame>>

\* The factory returned the mock the test goes on with.
FactoryReturned == ret.op # "createMock" /\ ~(ret.op = "createMockWithDefaults" /\ ret.kind = "throw")

\* A test that builds its mock with createMockWithDefaults and uses it: reads,
\* invocations and a one-shot override, while few recorder entries exist.
DefaultsNext ==
  \/ CreateMockWithNoDefaults
  \/ \E e \in DefaultEntries : CreateMockWithDefaults(e)
  \/ \E h \in Handles, k \in Keys : FactoryReturned /\ GetFits(h, k) /\ Get(h, k)
  \/ \E h \in Handles, a \in Args :
       FactoryReturned /\ Setup <= MaxSetup + 1 /\ InvokeFits(h) /\ Invoke(h, a)
  \/ \E h \in Handles, x \in Vals :
       FactoryReturned /\ Setup <= MaxSetup /\ MockResolvedValueOnce(h, x)

DefaultsSpec == Init /\ [][DefaultsNext]_vars

\* C17 (as claimed): createMockWithDefaults returns a root on which, for the
\* key of defaults, an invocable child runs the default function, or returns
\* the default plain value, and a child that is not invocable is replaced by
\* the plain value, which a read of the key then returns.
C17_DefaultsInstalled ==
  [][ret'.op = "createMockWithDefaults" =>
       \A e \in DefaultEntries :
         CreateMockWithDefaults(e) =>
           /\ ret' = Outcome("createMockWithDefaults", "return", ProxyOf(1))
           /\ IF props'[1][e.k].t = "proxy"
              THEN /\ onceQueue'[props'[1][e.k].v] = <<>>
                   /\ e.isFn => impl'[props'[1][e.k].v] = e.f
                   /\ ~e.isFn => Run(impl'[props'[1][e.k].v]).value = Plain(e.x)
              ELSE ~e.isFn /\ GetValue(ProxyOf(1), e.k)' = Plain(e.x)]_vars

----------------------------------------------------------------------------
(* One invocation of fn in the steps it is made of, for behaviours that     *)
(* look at, clear or reset the node they belong to while they execute.      *)

\* () => m.mock.calls.length
CountSelf == [b |-> "count", v |-> 0]

\* () => { m.mockClear() }
ClearSelf == [b |-> "clear", v |-> 0]

\* () => { m.mockReset() }
ResetSelf == [b |-> "reset", v |-> 0]

SelfFns == {CountSelf, ClearSelf, ResetSelf}

\* The mutant of ArgsLogged: the argument list is not logged before the
\* behaviour executes.
ArgsNotYetLogged(log, a) == log

\* mock.calls when the behaviour starts executing.
ArgsLogged(log, a) == PushCall(log, a)

\* fn up to the call of the behaviour: the argument list is logged, the head
\* of the one-shot queue is taken, the behaviour is chosen.
CallBegin(h, a) ==
  LET n == h.v
  IN /\ TestRuns
     /\ Len(calls[n]) < MaxCalls
     /\ calls' = [calls EXCEPT ![n] = ArgsLogged(@, a)]
     /\ onceQueue' = [onceQueue EXCEPT ![n] = ShiftRest(@)]
     /\ frame' = [NoFrame EXCEPT !.st = "begun", !.n = n, !.args = a, !.toCall = Chosen(n)]
     /\ UNCHANGED <<depth, results, impl, props, observed, ret, aw>>

\* toCall(...args): the behaviour executes, to a returned value or a thrown
\* error, with what it does to its own node on the way.
CallRun ==
  LET n == frame.n
      f == frame.toCall
      out == CASE f.b = "count" -> [kind |-> "return", value |-> Plain(Len(calls[n])),
                                    built |-> FALSE, d |-> 0]
               [] OTHER -> Run(f)
      cleared == f.b \in {"clear", "reset"}
  IN /\ frame.st = "begun"
     /\ frame' = [frame EXCEPT !.st = "ran", !.out = [kind |-> out.kind, value |-> out.value]]
     /\ depth' = Grow(depth, out.d, out.built)
     /\ impl' = Grow(IF f.b = "reset" THEN [impl EXCEPT ![n] = Nested(depth[n] + 1)] ELSE impl,
                     DefaultImpl(out.d), out.built)
     /\ calls' = Grow(IF cleared THEN [calls EXCEPT ![n] = ClearedLog(@)] ELSE calls,
                      <<>>, out.built)
     /\ results' = Grow(IF cleared THEN [results EXCEPT ![n] = ClearedLog(@)] ELSE results,
                        <<>>, out.built)
     /\ observed' = Grow(IF cleared THEN [observed EXCEPT ![n] = <<>>] ELSE observed,
                         <<>>, out.built)
     /\ onceQueue' = Grow(onceQueue, <<>>, out.built)
     /\ props' = Grow(props, NoProps, out.built)
     /\ UNCHANGED <<ret, aw>>

\* fn after the behaviour: the result entry is logged, the value is returned
\* or the error thrown again.
CallEnd ==
  LET n == frame.n
      got == CallOutcome(frame.out)
  IN /\ frame.st = "ran"
     /\ results' = [results EXCEPT ![n] = PushResult(@, frame.out.kind, frame.out.value)]
     /\ observed' = [observed EXCEPT ![n] =
                       Append(@, [args |-> frame.args, kind |-> got.kind, value |-> got.value])]
     /\ ret' = Outcome("call", got.kind, got.value)
     /\ frame' = NoFrame
     /\ UNCHANGED <<depth, calls, impl, onceQueue, props, aw>>

\* A test of one recorder with such behaviours.
StepNext ==
  \/ \E h \in RootHandles, a \in Args : InvokeFits(h) /\ CallBegin(h, a)
  \/ CallRun
  \/ CallEnd
  \/ \E h \in RootHandles, f \in SelfFns \cup UserFns : MockImplementation(h, f)
  \/ \E h \in RootHandles, f \in UserFns : MockImplementationOnce(h, f)
  \/ \E h \in RootHandles : MockClear(h)

StepSpec == Init /\ [][StepNext]_vars

\* C19 (as claimed): mock.calls and mock.results of a node have the same
\* length in every state, the states in which a behaviour executes included.
C19_LogsSameLength == \A n \in Nodes : Len(calls[n]) = Len(results[n])

\* C20: fn appends the argument list to mock.calls before the behaviour
\* executes and leaves mock.results alone until it has finished, whether it
\* returns or throws; a behaviour that reads the call count of its node sees
\* the invocation it runs in counted; the result entry is appended after the
\* behaviour, by the step that hands the outcome to the caller.
C20_ArgsLoggedFirst ==
  [][/\ frame'.st = "begun" =>
          /\ calls'[frame'.n] = Append(calls[frame'.n], frame'.args)
          /\ results' = results
     /\ frame'.st = "ran" /\ frame.toCall.b \in {"count", "throw"} =>
          /\ calls' = calls
          /\ results' = results
          /\ calls[frame.n] # <<>> /\ calls[frame.n][Len(calls[frame.n])] = frame.args
          /\ frame.toCall = CountSelf => frame'.out.value = Plain(Len(calls[frame.n]))
          /\ frame.toCall.b = "throw" => frame'.out.kind = "throw"
     /\ frame.st = "ran" /\ frame'.st = "none" =>
          /\ calls' = calls
          /\ results'[frame.n] =
               Append(results[frame.n], [type |-> frame.out.kind, value |-> frame.out.value])
          /\ ret'.kind = frame.out.kind /\ ret'.value = frame.out.value]_vars

\* The behaviour counted 2 while it ran in the second invocation, before a
\* result entry of that invocation existed; the first invocation threw.
C20_Witness ==
  /\ frame.st = "ran"
  /\ frame.toCall = CountSelf
  /\ frame.out.value = Plain(2)
  /\ Len(calls[1]) = 2 /\ Len(results[1]) = 1
  /\ results[1][1].type = "throw"

----------------------------------------------------------------------------
(* Several mock trees side by side: test code calls createMock again, and   *)
(* resetAllMocks between its cases.                                         *)

\* createMock(): one more root, with the closure state createBaseMock gives
\* every node.
CreateMock(d) ==
  /\ TestRuns
  /\ Build(CreateMockBuilds(d), d)
  /\ calls' = Grow(calls, <<>>, CreateMockBuilds(d))
  /\ results' = Grow(results, <<>>, CreateMockBuilds(d))
  /\ onceQueue' = Grow(onceQueue, <<>>, CreateMockBuilds(d))
  /\ props' = Grow(props, NoProps, CreateMockBuilds(d))
  /\ observed' = Grow(observed, <<>>, CreateMockBuilds(d))
  /\ ret' = Outcome("createMock", "return", CreateMockValue(d))
  /\ UNCHANGED <<aw, frame>>

\* resetAllMocks(): an empty function body.
ResetAllMocks ==
  /\ TestRuns
  /\ ret' = Outcome("resetAllMocks", "return", Undef)
  /\ UNCHANGED <<depth, calls, results, impl, onceQueue, props, observed, aw, frame>>

\* A test with more than one tree, while few recorder entries exist.
ForestNext ==
  \/ \E d \in {0} : CanAlloc /\ CreateMock(d)
  \/ ResetAllMocks
  \/ \E h \in RootHandles, k \in {"next"} : GetFits(h, k) /\ Get(h, k)
  \/ \E h \in Handles, a \in Args : Setup <= MaxSetup + 1 /\ InvokeFits(h) /\ Invoke(h, a)
  \/ \E h \in Handles, x \in Vals : Setup <= MaxSetup + 1 /\ MockReturnValue(h, x)
  \/ \E h \in Handles, x \in Vals : Setup <= MaxSetup + 1 /\ MockReturnValueOnce(h, x)
  \/ \E h \in Handles : MockClear(h)
  \/ \E h \in Handles : MockReset(h)

ForestSpec == Init /\ [][ForestNext]_vars

\* Node m has in the next state the logs, default, queue and children it has.
Untouched(m) ==
  /\ calls'[m] = calls[m]
  /\ results'[m] = results[m]
  /\ impl'[m] = impl[m]
  /\ onceQueue'[m] = onceQueue[m]
  /\ props'[m] = props[m]

====
